---- MODULE Spec2Model ----
(***************************************************************************)
(* A model of the MCP code-review agent of run_mcp_agent.py:               *)
(*   MCPClientManager   - the tool registry (sessions, exit_stack,         *)
(*                        available_tools) and its operations              *)
(*   CodeReviewAgentMCP - the think/act loop (run, think, act)             *)
(* Coroutines are cut at their await points: a connect_to_server in        *)
(* progress is in conn, a call_tool suspended at session.call_tool is in   *)
(* inflight, the run loop's position is in pc.                             *)
(***************************************************************************)
EXTENDS Naturals, Sequences, FiniteSets, TLC

(* ------------------------------ bounds --------------------------------- *)

\* the largest max_steps given to run
MaxSteps == 2
\* how many sessions connect_to_server may open in one exploration
MaxConnects == 2
\* how many session calls the direct callers of call_tool may make
MaxCalls == 2

(* --------------------------- Python values ----------------------------- *)

\* Python's None
None == "<None>"
\* a local variable that has not been assigned
Unbound == "<unbound>"
\* an empty dict
EmptyDict == [k \in {} |-> ""]

(* ------------------------------- inputs -------------------------------- *)

\* server_name arguments of connect_to_server
ServerNames == {"s", "s.t"}
\* what session.list_tools() answers: response.tools
ToolLists == {<<>>, <<"u">>, <<"u", "t.u">>, <<"u", "u">>}
\* server_script_path arguments: the first word of the path and its extension
ScriptPaths == {[first |-> "server", ext |-> ".py"],
                [first |-> "server", ext |-> ".js"],
                [first |-> "npx", ext |-> ""],
                [first |-> "server", ext |-> ".txt"]}
\* a tool as a server declares it (mcp.types.Tool)
Tool(n) == [name |-> n, description |-> "about " \o n, inputSchema |-> "schema of " \o n]
\* the tasks that call call_tool: the agent loop and two direct callers
Agent == "agent"
DirectCallers == {"c1", "c2"}
\* tool_name arguments of direct call_tool calls
CallNames == {"s.u", "s.t.u", "u", "x.y"}
\* arguments mappings
ArgDicts == {[code |-> "def f(): pass"], [path |-> "sample.py"]}
\* arguments of direct call_tool calls
DirectArgs == {[code |-> "def f(): pass"]}
\* result.content of a session call that returns: a list of text items
Contents == {<<>>, <<"looks fine", "second item">>}

(* ------------------------------- state --------------------------------- *)

VARIABLES
    sessions,               \* MCPClientManager.sessions: server_name -> session
    exit_stack,             \* MCPClientManager.exit_stack: the sessions entered, not yet exited
    available_tools,        \* MCPClientManager.available_tools, in insertion order
    nextSession,            \* identity of the next ClientSession object
    conn,                   \* the connect_to_server coroutine in progress
    inflight,               \* caller -> its call suspended at session.call_tool
    calls,                  \* the calls the sessions have received, in order
    discovered,             \* the qualified names discovered so far, in order
    discoverers,            \* for each of them, the session and the tool's own name
    lastOp,                 \* the registry operation that acted last, and how it ended
    conversation_history,   \* CodeReviewAgentMCP.conversation_history
    pc,                     \* where run is
    user_input,             \* run's user_input
    max_steps,              \* run's max_steps
    step,                   \* run's loop variable
    current_request,        \* run's current_request
    decision,               \* run's decision: the text think returned
    result,                 \* run's result
    retval,                 \* what run returned or raised
    prompt,                 \* the prompt think sent last
    thinkCalls,             \* completion-service calls of this run
    decisions,              \* the text of each think of this run, in step order
    observations,           \* the result of each act of this run, in step order
    answer,                 \* what the session answered to the agent's latest call
    stale                   \* the run began with entries of an earlier run in the history

registryVars == <<sessions, exit_stack, available_tools, nextSession, conn,
                  inflight, calls, discovered, discoverers, lastOp>>
agentVars == <<conversation_history, pc, user_input, max_steps, step,
               current_request, decision, result, retval, prompt, thinkCalls,
               decisions, observations, answer, stale>>
vars == <<sessions, exit_stack, available_tools, nextSession, conn,
          inflight, calls, discovered, discoverers, lastOp,
          conversation_history, pc, user_input, max_steps, step,
          current_request, decision, result, retval, prompt, thinkCalls,
          decisions, observations, answer, stale>>

(* ----------------------------- the registry ---------------------------- *)

\* no connect_to_server in progress
NoConn == [at |-> "none", server_name |-> "", session |-> 0]

\* how an operation ended
Op(op, name, outcome) == [op |-> op, name |-> name, outcome |-> outcome]

\* a session is live from the moment its context is entered until it is exited
Live(s) == \E i \in 1..Len(exit_stack) : exit_stack[i] = s

\* the keys of a dict
Keys(d) == {d[i].key : i \in 1..Len(d)}

\* d[key] = val of a dict: a new key goes last, an old key keeps its place
DictSet(d, key, val) ==
    IF key \in Keys(d)
    THEN [i \in 1..Len(d) |-> IF d[i].key = key THEN val ELSE d[i]]
    ELSE Append(d, val)

\* tool_key = f"{server_name}.{tool.name}"
tool_key(server_name, name) == server_name \o "." \o name

\* a loop that stops after the first of response.tools
InsertToolsFirstOnly(d, server_name, session, tools) ==
    IF tools = <<>> THEN d
    ELSE DictSet(d, tool_key(server_name, Head(tools)),
                 [key |-> tool_key(server_name, Head(tools)),
                  server_name |-> server_name,
                  session |-> session,
                  tool |-> Tool(Head(tools))])

\* the for loop of connect_to_server over response.tools
RECURSIVE InsertTools(_, _, _, _)
InsertTools(d, server_name, session, tools) ==
    IF tools = <<>> THEN d
    ELSE InsertTools(
            DictSet(d, tool_key(server_name, Head(tools)),
                    [key |-> tool_key(server_name, Head(tools)),
                     server_name |-> server_name,
                     session |-> session,
                     tool |-> Tool(Head(tools))]),
            server_name, session, Tail(tools))

\* the check of server_script_path
ValidPath(p) ==
    LET is_python == p.ext = ".py"
        is_js == p.ext = ".js"
        is_npm_package == p.first = "npx"
    IN  is_python \/ is_js \/ is_npm_package

\* connect_to_server up to the await of session.initialize(): the path check
\* and the two enter_async_context calls
ConnectStart(server_name, path) ==
    /\ conn.at = "none"
    /\ nextSession <= MaxConnects
    /\ \/ /\ ~ValidPath(path)
          /\ lastOp' = Op("connect_to_server", server_name, "ValueError")
          /\ UNCHANGED <<exit_stack, nextSession, conn>>
       \/ /\ ValidPath(path)
          /\ lastOp' = Op("connect_to_server", server_name, "transport failed")
          /\ UNCHANGED <<exit_stack, nextSession, conn>>
       \/ /\ ValidPath(path)
          /\ exit_stack' = Append(exit_stack, nextSession)
          /\ conn' = [at |-> "initialize", server_name |-> server_name,
                      session |-> nextSession]
          /\ nextSession' = nextSession + 1
          /\ lastOp' = Op("connect_to_server", server_name, "entered")
    /\ UNCHANGED <<sessions, available_tools, inflight, calls, discovered,
                   discoverers>>
    /\ UNCHANGED agentVars

\* session.initialize() returns or raises; self.sessions[server_name] = session
ConnectInitialize ==
    /\ conn.at = "initialize"
    /\ \/ /\ sessions' = [n \in DOMAIN sessions \cup {conn.server_name} |->
                            IF n = conn.server_name THEN conn.session ELSE sessions[n]]
          /\ conn' = [conn EXCEPT !.at = "list_tools"]
          /\ lastOp' = Op("connect_to_server", conn.server_name, "initialized")
       \/ /\ conn' = NoConn
          /\ lastOp' = Op("connect_to_server", conn.server_name, "initialize failed")
          /\ UNCHANGED sessions
    /\ UNCHANGED <<exit_stack, available_tools, nextSession, inflight, calls,
                   discovered, discoverers>>
    /\ UNCHANGED agentVars

\* a discovery that has inserted a tool when it fails
ConnectDiscoverPartial(tools) ==
    /\ conn.at = "list_tools"
    /\ \/ /\ available_tools' =
                InsertTools(available_tools, conn.server_name, conn.session, tools)
          /\ discovered' = discovered \o
                [i \in 1..Len(tools) |-> tool_key(conn.server_name, tools[i])]
          /\ discoverers' = discoverers \o
                [i \in 1..Len(tools) |-> [session |-> conn.session, name |-> tools[i]]]
          /\ lastOp' = Op("connect_to_server", conn.server_name, "connected")
       \/ /\ lastOp' = Op("connect_to_server", conn.server_name, "list_tools failed")
          /\ available_tools' =
                InsertToolsFirstOnly(available_tools, conn.server_name, conn.session, tools)
          /\ UNCHANGED <<discovered, discoverers>>
    /\ conn' = NoConn
    /\ UNCHANGED <<sessions, exit_stack, nextSession, inflight, calls>>
    /\ UNCHANGED agentVars

\* session.list_tools() returns or raises; the discovered tools are inserted
ConnectDiscover(tools) ==
    /\ conn.at = "list_tools"
    /\ \/ /\ available_tools' =
                InsertTools(available_tools, conn.server_name, conn.session, tools)
          /\ discovered' = discovered \o
                [i \in 1..Len(tools) |-> tool_key(conn.server_name, tools[i])]
          /\ discoverers' = discoverers \o
                [i \in 1..Len(tools) |-> [session |-> conn.session, name |-> tools[i]]]
          /\ lastOp' = Op("connect_to_server", conn.server_name, "connected")
       \/ /\ lastOp' = Op("connect_to_server", conn.server_name, "list_tools failed")
          /\ UNCHANGED <<available_tools, discovered, discoverers>>
    /\ conn' = NoConn
    /\ UNCHANGED <<sessions, exit_stack, nextSession, inflight, calls>>
    /\ UNCHANGED agentVars

\* the entry available_tools[tool_name]
tool_info(tool_name) ==
    available_tools[CHOOSE i \in 1..Len(available_tools) :
                        available_tools[i].key = tool_name]

\* `tool_name not in self.available_tools`
UnknownTool(tool_name) == tool_name \notin Keys(available_tools)

\* a call_tool that learns of an unknown tool from the session it asks: the
\* name goes to the session connected last, whose remote error is raised
call_tool_asks_session(caller, tool_name, arguments) ==
    IF UnknownTool(tool_name)
    THEN /\ lastOp' = Op("call_tool", tool_name, "ValueError")
         /\ calls' = Append(calls, [session |-> nextSession - 1, name |-> tool_name,
                                    arguments |-> arguments])
         /\ UNCHANGED inflight
    ELSE LET call == [session |-> tool_info(tool_name).session,
                      name |-> tool_info(tool_name).tool.name,
                      arguments |-> arguments]
         IN  /\ calls' = Append(calls, call)
             /\ inflight' = [c \in DOMAIN inflight \cup {caller} |->
                                IF c = caller THEN call ELSE inflight[c]]
             /\ lastOp' = Op("call_tool", tool_name, "called")

\* a call_tool that hands the session the qualified name it was called with
call_tool_qualified(caller, tool_name, arguments) ==
    IF UnknownTool(tool_name)
    THEN /\ lastOp' = Op("call_tool", tool_name, "ValueError")
         /\ UNCHANGED <<calls, inflight>>
    ELSE LET session == tool_info(tool_name).session
             call == [session |-> session, name |-> tool_name,
                      arguments |-> arguments]
         IN  /\ calls' = Append(calls, call)
             /\ inflight' = [c \in DOMAIN inflight \cup {caller} |->
                                IF c = caller THEN call ELSE inflight[c]]
             /\ lastOp' = Op("call_tool", tool_name, "called")

\* call_tool up to the await of session.call_tool: the membership check, the
\* lookup and the call handed to the owning session
call_tool(caller, tool_name, arguments) ==
    IF UnknownTool(tool_name)
    THEN /\ lastOp' = Op("call_tool", tool_name, "ValueError")
         /\ UNCHANGED <<calls, inflight>>
    ELSE LET session == tool_info(tool_name).session
             actual_tool_name == tool_info(tool_name).tool.name
             call == [session |-> session, name |-> actual_tool_name,
                      arguments |-> arguments]
         IN  /\ calls' = Append(calls, call)
             /\ inflight' = [c \in DOMAIN inflight \cup {caller} |->
                                IF c = caller THEN call ELSE inflight[c]]
             /\ lastOp' = Op("call_tool", tool_name, "called")

\* the agent's call has not been answered
NoAnswer == [raised |-> FALSE, content |-> <<>>, error |-> "no answer yet"]

\* what the session of a suspended call answers: a live session returns content
\* or fails, a released one fails
SessionAnswers(session) ==
    IF Live(session)
    THEN {[raised |-> FALSE, content |-> c, error |-> ""] : c \in Contents}
         \cup {[raised |-> TRUE, content |-> <<>>, error |-> "tool failed"]}
    ELSE {[raised |-> TRUE, content |-> <<>>, error |-> "session closed"]}

\* a call_tool that returns an empty text for an empty result.content
call_tool_text_empty(content) ==
    IF Len(content) > 0 THEN content[1]
    ELSE ""

\* the text call_tool returns for result.content
call_tool_text(content) ==
    IF Len(content) > 0 THEN content[1]
    ELSE "Tool executed successfully (no output)"

\* a caller's call leaves inflight
Resume(caller) == [c \in DOMAIN inflight \ {caller} |-> inflight[c]]

\* call_tool from the answer of the session on: it returns the text or raises
call_tool_return(caller, a) ==
    /\ lastOp' = Op("call_tool returned", inflight[caller].name,
                    IF a.raised THEN a.error ELSE call_tool_text(a.content))
    /\ inflight' = Resume(caller)

\* a direct caller calls call_tool
CallTool(caller, tool_name, arguments) ==
    /\ caller \notin DOMAIN inflight
    /\ Len(calls) < MaxCalls
    /\ call_tool(caller, tool_name, arguments)
    /\ UNCHANGED <<sessions, exit_stack, available_tools, nextSession, conn,
                   discovered, discoverers>>
    /\ UNCHANGED agentVars

\* a direct caller's session call returns or raises, and so does call_tool
CallToolReturn(caller) ==
    /\ caller \in DOMAIN inflight
    /\ \E a \in SessionAnswers(inflight[caller].session) : call_tool_return(caller, a)
    /\ UNCHANGED <<sessions, exit_stack, available_tools, nextSession, conn,
                   calls, discovered, discoverers>>
    /\ UNCHANGED agentVars

\* get_tool_descriptions: one descriptor per entry, in the order of the dict
get_tool_descriptions ==
    [i \in 1..Len(available_tools) |->
        [name |-> available_tools[i].key,
         description |-> available_tools[i].tool.description,
         inputSchema |-> available_tools[i].tool.inputSchema]]

\* cleanup: exit_stack.aclose() exits every context entered
cleanup ==
    /\ exit_stack' = <<>>
    /\ lastOp' = Op("cleanup", "", "complete")
    /\ UNCHANGED <<sessions, available_tools, nextSession, conn, inflight,
                   calls, discovered, discoverers>>
    /\ UNCHANGED agentVars

(* ------------------------------ the agent ------------------------------ *)

\* run's user_input
Goals == {"Review the code in sample.py"}

\* a model response: text that is no JSON, a JSON value that is no object, or
\* a JSON object with some of the keys done, summary, tool and args
Response(type, keys, done, summary, tool, args) ==
    [type |-> type, keys |-> keys, done |-> done, summary |-> summary,
     tool |-> tool, args |-> args]
JsonObject(keys, done, summary, tool, args) ==
    Response("object", keys, done, summary, tool, args)
A1 == [code |-> "def f(): pass"]
A2 == [path |-> "sample.py"]

\* response.output_text of the completion service
Responses == {
    Response("text", {}, "", "", "", EmptyDict),
    Response("array", {}, "", "", "", EmptyDict),
    JsonObject({}, "", "", "", EmptyDict),
    JsonObject({"done", "summary"}, "true", "No issues found", "", EmptyDict),
    JsonObject({"done"}, "true", "", "", EmptyDict),
    JsonObject({"done", "summary"}, "1", "Reviewed", "", EmptyDict),
    JsonObject({"done", "summary", "tool", "args"}, "true", "No issues found", "s.u", A1),
    JsonObject({"done", "tool", "args"}, "false", "", "s.u", A2),
    JsonObject({"tool", "args"}, "", "", "s.u", A1),
    JsonObject({"tool", "args"}, "", "", "x.y", A1),
    JsonObject({"tool"}, "", "", "s.u", EmptyDict),
    JsonObject({"args"}, "", "", "", A1)}

\* before the first think of a run there is no response and no prompt
NoDecision == Response("none", {}, "", "", "", EmptyDict)
NoPrompt == [tools |-> <<>>, history |-> [entries |-> <<>>, placeholder |-> ""],
             request |-> ""]

\* bool(v) of a JSON scalar or of None
Truthy(v) == v \notin {None, "false", "null", "0", ""}

\* parsed.get(key), None when the key is absent
Get(parsed, key) ==
    IF key \notin parsed.keys THEN None
    ELSE CASE key = "done" -> parsed.done
           [] key = "summary" -> parsed.summary
           [] key = "tool" -> parsed.tool
           [] OTHER -> None

\* error_msg = f"Error executing tool {e}"
error_msg(e) == "Error executing tool " \o e

\* an act that returns the value of "done" in place of the summary
ActDecidesReturnsDone(d) ==
    IF d.type = "text"
        THEN [kind |-> "raise", text |-> "Expecting value: line 1 column 1 (char 0)",
              tool |-> "", args |-> EmptyDict]
    ELSE IF d.type # "object"
        THEN [kind |-> "raise", text |-> "'list' object has no attribute 'get'",
              tool |-> "", args |-> EmptyDict]
    ELSE IF Truthy(Get(d, "done"))
        THEN [kind |-> "done", text |-> Get(d, "done"),
              tool |-> "", args |-> EmptyDict]
    ELSE IF "tool" \notin d.keys
        THEN [kind |-> "raise", text |-> "'tool'", tool |-> "", args |-> EmptyDict]
    ELSE [kind |-> "invoke", text |-> "", tool |-> d.tool,
          args |-> IF "args" \in d.keys THEN d.args ELSE EmptyDict]

\* an act that looks for a tool to call before it looks at "done"
ActDecidesToolFirst(d) ==
    IF d.type = "text"
        THEN [kind |-> "raise", text |-> "Expecting value: line 1 column 1 (char 0)",
              tool |-> "", args |-> EmptyDict]
    ELSE IF d.type # "object"
        THEN [kind |-> "raise", text |-> "'list' object has no attribute 'get'",
              tool |-> "", args |-> EmptyDict]
    ELSE IF "tool" \in d.keys
        THEN [kind |-> "invoke", text |-> "", tool |-> d.tool,
              args |-> IF "args" \in d.keys THEN d.args ELSE EmptyDict]
    ELSE IF Truthy(Get(d, "done"))
        THEN [kind |-> "done", text |-> Get(d, "summary"),
              tool |-> "", args |-> EmptyDict]
    ELSE [kind |-> "raise", text |-> "'tool'", tool |-> "", args |-> EmptyDict]

\* act up to the call of call_tool: json.loads, the done branch,
\* parsed["tool"] and parsed.get("args", {})
\*   raise: an exception was raised and caught; done: act returns (summary, True);
\*   invoke: call_tool is called with tool and args
ActDecides(d) ==
    IF d.type = "text"
        THEN [kind |-> "raise", text |-> "Expecting value: line 1 column 1 (char 0)",
              tool |-> "", args |-> EmptyDict]
    ELSE IF d.type # "object"
        THEN [kind |-> "raise", text |-> "'list' object has no attribute 'get'",
              tool |-> "", args |-> EmptyDict]
    ELSE IF Truthy(Get(d, "done"))
        THEN [kind |-> "done", text |-> Get(d, "summary"),
              tool |-> "", args |-> EmptyDict]
    ELSE IF "tool" \notin d.keys
        THEN [kind |-> "raise", text |-> "'tool'", tool |-> "", args |-> EmptyDict]
    ELSE [kind |-> "invoke", text |-> "", tool |-> d.tool,
          args |-> IF "args" \in d.keys THEN d.args ELSE EmptyDict]

\* what run returned or raised
NoReturn == [kind |-> "running", value |-> ""]
Returned(v) == [kind |-> "returned", value |-> v]
Raised(e) == [kind |-> "raised", value |-> e]

\* run after its for loop: the summary is built from result
AfterLoop(n, res) ==
    IF res = Unbound
    THEN Raised("UnboundLocalError")
    ELSE Returned("Workflow incomplete after " \o ToString(n)
                  \o " steps. Last result: " \o res)

\* a rewrite that continues from the request of the step in place of the goal
NextRequestNested(res, goal) ==
    "Previous result: " \o res \o "\nContinue with the original task " \o current_request

\* current_request = f"Previous result: {result}\nContinue with the original task {user_input}"
NextRequest(res, goal) ==
    "Previous result: " \o res \o "\nContinue with the original task " \o goal

\* self.conversation_history.append(f"I used tool ... with args ... Result: ...")
HistoryEntry(tool_name, args, res) == [tool |-> tool_name, args |-> args, result |-> res]

\* a loop whose summary is built from the result of the step before
StepEndsStale(res) ==
    /\ result' = res
    /\ observations' = Append(observations, res)
    /\ current_request' = NextRequest(res, user_input)
    /\ IF step < max_steps
       THEN /\ step' = step + 1
            /\ pc' = "think"
            /\ retval' = retval
       ELSE /\ step' = step
            /\ pc' = "exhausted"
            /\ retval' = AfterLoop(max_steps, IF result = Unbound THEN res ELSE result)

\* a loop that does not count its steps
StepEndsNoCount(res) ==
    /\ result' = res
    /\ observations' = Append(observations, res)
    /\ current_request' = NextRequest(res, user_input)
    /\ IF step <= max_steps
       THEN /\ step' = step
            /\ pc' = "think"
            /\ retval' = retval
       ELSE /\ step' = step
            /\ pc' = "exhausted"
            /\ retval' = AfterLoop(max_steps, res)

\* run from the return of a non-terminal act to the next think or to its return
StepEnds(res) ==
    /\ result' = res
    /\ observations' = Append(observations, res)
    /\ current_request' = NextRequest(res, user_input)
    /\ IF step < max_steps
       THEN /\ step' = step + 1
            /\ pc' = "think"
            /\ retval' = retval
       ELSE /\ step' = step
            /\ pc' = "exhausted"
            /\ retval' = AfterLoop(max_steps, res)

\* a run that goes on with the history the agent already has
run_keeps_history(goal, n) ==
    /\ pc \in {"idle", "done", "exhausted", "raised"}
    /\ conn.at = "none"
    /\ conversation_history' = conversation_history
    /\ user_input' = goal
    /\ max_steps' = n
    /\ current_request' = goal
    /\ decision' = NoDecision
    /\ result' = Unbound
    /\ prompt' = NoPrompt
    /\ thinkCalls' = 0
    /\ decisions' = <<>>
    /\ observations' = <<>>
    /\ calls' = <<>>
    /\ IF 1 <= n
       THEN /\ step' = 1
            /\ pc' = "think"
            /\ retval' = NoReturn
       ELSE /\ step' = 0
            /\ pc' = IF AfterLoop(n, Unbound).kind = "raised" THEN "raised" ELSE "exhausted"
            /\ retval' = AfterLoop(n, Unbound)
    /\ answer' = NoAnswer
    /\ stale' = (conversation_history # <<>>)
    /\ UNCHANGED <<sessions, exit_stack, available_tools, nextSession, conn,
                   inflight, discovered, discoverers, lastOp>>


\* run(user_input, max_steps) up to its first think; with an empty range the
\* loop body never runs. The logs of the run (calls, decisions, observations,
\* thinkCalls) start afresh with it.
run(goal, n) ==
    /\ pc \in {"idle", "done", "exhausted", "raised"}
    /\ conn.at = "none"
    /\ conversation_history' = <<>>
    /\ user_input' = goal
    /\ max_steps' = n
    /\ current_request' = goal
    /\ decision' = NoDecision
    /\ result' = Unbound
    /\ prompt' = NoPrompt
    /\ thinkCalls' = 0
    /\ decisions' = <<>>
    /\ observations' = <<>>
    /\ calls' = <<>>
    /\ IF 1 <= n
       THEN /\ step' = 1
            /\ pc' = "think"
            /\ retval' = NoReturn
       ELSE /\ step' = 0
            /\ pc' = IF AfterLoop(n, Unbound).kind = "raised" THEN "raised" ELSE "exhausted"
            /\ retval' = AfterLoop(n, Unbound)
    /\ answer' = NoAnswer
    /\ stale' = (conversation_history # <<>>)
    /\ UNCHANGED <<sessions, exit_stack, available_tools, nextSession, conn,
                   inflight, discovered, discoverers, lastOp>>

\* the history in the prompt: json.dumps of the entries, or the placeholder
\* "No history yet" when there are none
history_text(history) ==
    IF history # <<>> THEN [entries |-> history, placeholder |-> ""]
    ELSE [entries |-> <<>>, placeholder |-> "No history yet"]

\* think: the prompt is built and the completion service answers or fails
think ==
    /\ pc = "think"
    /\ prompt' = [tools |-> get_tool_descriptions,
                  history |-> history_text(conversation_history),
                  request |-> current_request]
    /\ thinkCalls' = thinkCalls + 1
    /\ \/ /\ \E r \in Responses : decision' = r
          /\ decisions' = Append(decisions, decision')
          /\ pc' = "act"
          /\ UNCHANGED retval
       \/ /\ pc' = "raised"
          /\ retval' = Raised("completion service failed")
          /\ UNCHANGED <<decision, decisions>>
    /\ UNCHANGED <<conversation_history, user_input, max_steps, step,
                   current_request, result, observations, answer, stale>>
    /\ UNCHANGED registryVars

\* act(decision) up to the await of the session call, and run after it when
\* act returns without a session called
act ==
    /\ pc = "act"
    /\ LET does == ActDecides(decision)
       IN  \/ /\ does.kind = "raise"
              /\ StepEnds(error_msg(does.text))
              /\ UNCHANGED <<conversation_history, calls, inflight, lastOp>>
           \/ /\ does.kind = "done"
              /\ result' = does.text
              /\ observations' = Append(observations, does.text)
              /\ pc' = "done"
              /\ retval' = Returned(does.text)
              /\ UNCHANGED <<conversation_history, step, current_request,
                             calls, inflight, lastOp>>
           \/ /\ does.kind = "invoke"
              /\ call_tool(Agent, does.tool, does.args)
              /\ IF UnknownTool(does.tool)
                 THEN StepEnds(error_msg("Unknown tool: " \o does.tool))
                 ELSE /\ pc' = "call"
                      /\ UNCHANGED <<step, current_request, result, retval,
                                     observations>>
              /\ UNCHANGED conversation_history
    /\ UNCHANGED <<user_input, max_steps, decision, prompt, thinkCalls, decisions,
                   answer, stale>>
    /\ UNCHANGED <<sessions, exit_stack, available_tools, nextSession, conn,
                   discovered, discoverers>>

\* the session answers the agent's call: call_tool returns or raises, act
\* appends to the history and returns, and run goes on
act_resumes ==
    /\ pc = "call"
    /\ \E a \in SessionAnswers(inflight[Agent].session) :
          /\ call_tool_return(Agent, a)
          /\ answer' = a
          /\ IF a.raised
             THEN /\ StepEnds(error_msg(a.error))
                  /\ UNCHANGED conversation_history
             ELSE LET does == ActDecides(decision)
                      res == call_tool_text(a.content)
                  IN  /\ conversation_history' =
                            Append(conversation_history,
                                   HistoryEntry(does.tool, does.args, res))
                      /\ StepEnds(res)
    /\ UNCHANGED <<user_input, max_steps, decision, prompt, thinkCalls, decisions,
                   stale>>
    /\ UNCHANGED <<sessions, exit_stack, available_tools, nextSession, conn,
                   calls, discovered, discoverers>>

(* --------------------------- specifications ---------------------------- *)

InitRegistry ==
    /\ sessions = [n \in {} |-> 0]
    /\ exit_stack = <<>>
    /\ available_tools = <<>>
    /\ nextSession = 1
    /\ conn = NoConn
    /\ inflight = [c \in {} |-> 0]
    /\ calls = <<>>
    /\ discovered = <<>>
    /\ discoverers = <<>>
    /\ lastOp = Op("__init__", "", "")

InitAgent ==
    /\ conversation_history = <<>>
    /\ pc = "idle"
    /\ user_input = None
    /\ max_steps = 0
    /\ step = 0
    /\ current_request = None
    /\ decision = NoDecision
    /\ result = Unbound
    /\ retval = NoReturn
    /\ prompt = NoPrompt
    /\ thinkCalls = 0
    /\ decisions = <<>>
    /\ observations = <<>>
    /\ answer = NoAnswer
    /\ stale = FALSE

Init == InitRegistry /\ InitAgent

\* the registry under concurrent use: connects, direct calls and cleanup interleave
NextRegistry ==
    \/ \E n \in ServerNames, p \in ScriptPaths : ConnectStart(n, p)
    \/ ConnectInitialize
    \/ \E t \in ToolLists : ConnectDiscover(t)
    \/ \E c \in DirectCallers, q \in CallNames, a \in DirectArgs : CallTool(c, q, a)
    \/ \E c \in DirectCallers : CallToolReturn(c)
    \/ cleanup

SpecRegistry == Init /\ [][NextRegistry]_vars

\* one task, as main: servers are connected before the agent runs, the agent
\* runs any number of times, cleanup comes between or after runs
MainServers == {"s"}
MainToolLists == {<<"u">>}
Next ==
    \/ pc = "idle" /\ \E n \in MainServers, p \in ScriptPaths : ConnectStart(n, p)
    \/ pc = "idle" /\ ConnectInitialize
    \/ pc = "idle" /\ \E t \in MainToolLists : ConnectDiscover(t)
    \/ pc \notin {"think", "act", "call"} /\ conn.at = "none" /\ cleanup
    \/ \E g \in Goals, n \in 0..MaxSteps : run(g, n)
    \/ think
    \/ act
    \/ act_resumes

Spec == Init /\ [][Next]_vars

\* the event loop runs a coroutine that can go on: a run that is at think or
\* act takes that step, and an awaited session call is answered (each of the
\* three steps moves pc)
SpecFair == Spec /\ WF_pc(think) /\ WF_pc(act) /\ WF_pc(act_resumes)

(* ------------------------------- claims -------------------------------- *)

\* run has returned or raised
Ended == pc \in {"done", "exhausted", "raised"}

\* C1: run(goal, max_steps=0) ends at once by returning an Exhausted result,
\* with no call of the completion service and no tool invoked.
C1_ZeroStepsReturnsExhausted ==
    (Ended /\ max_steps = 0) =>
        (pc = "exhausted" /\ retval.kind = "returned" /\ thinkCalls = 0 /\ calls = <<>>)

\* C2: for max_steps >= 1 run never ends by raising: an error inside think or
\* act is caught and becomes the observation of the step.
C2_StepErrorsAreCaught ==
    max_steps >= 1 => (pc # "raised" /\ retval.kind # "raised")

\* the non-terminal steps run has completed
CompletedSteps == IF pc = "done" THEN Len(observations) - 1 ELSE Len(observations)

\* C3: after k completed non-terminal steps the history holds exactly k
\* entries, a failed step appended like a successful one.
C3_OneEntryPerStep ==
    pc # "idle" => Len(conversation_history) = CompletedSteps

\* C4: call_tool of a name that is no key of available_tools raises the
\* unknown-tool error, leaves no call suspended and reaches no session.
C4_UnknownToolNoSessionCall ==
    [][(lastOp'.op = "call_tool" /\ lastOp'.name \notin Keys(available_tools))
        => (lastOp'.outcome = "ValueError" /\ calls' = calls
            /\ inflight' = inflight)]_vars

\* C4 witness: an unknown name was refused while the registry held tools of a
\* released session and a session had been called before.
C4_Witness ==
    /\ lastOp = Op("call_tool", "x.y", "ValueError")
    /\ available_tools # <<>>
    /\ exit_stack = <<>>
    /\ calls # <<>>

\* C5: after cleanup, the first or a repeated one, the registry is empty: no
\* session, no tool, an empty list of descriptions.
C5_CleanupEmptiesRegistry ==
    lastOp.op = "cleanup" =>
        (DOMAIN sessions = {} /\ available_tools = <<>> /\ get_tool_descriptions = <<>>)

\* C6: every key of available_tools refers to a live session.
C6_EntriesHaveLiveSessions ==
    \A i \in 1..Len(available_tools) : Live(available_tools[i].session)

\* the response is an Invoke decision of a tool in the registry
Executable(d) == ActDecides(d).kind = "invoke" /\ ~UnknownTool(ActDecides(d).tool)

\* C7: when the k-th response is the first Complete decision and the earlier
\* ones are executable Invoke decisions, run returns its summary after k think
\* calls and k-1 tool invocations; at k = 1 the history is empty.
C7_CompleteReturnsSummary ==
    (/\ pc = "done"
     /\ \A i \in 1..(Len(decisions) - 1) : Executable(decisions[i]))
    => (/\ retval = Returned(Get(decision, "summary"))
        /\ Len(decisions) = step
        /\ thinkCalls = step
        /\ Len(calls) = step - 1
        /\ (step = 1 => conversation_history = <<>>))

\* C7 witness: the second response completed after one tool call.
C7_Witness ==
    /\ pc = "done"
    /\ step = 2
    /\ Executable(decisions[1])
    /\ retval = Returned("No issues found")
    /\ Len(calls) = 1

\* C8: with max_steps = n >= 1 and no Complete decision, run returns after n
\* steps the incomplete message built from the observation of step n.
C8_ExhaustedReportsLastStep ==
    pc = "exhausted" =>
        (/\ max_steps >= 1
         /\ thinkCalls = max_steps
         /\ Len(observations) = max_steps
         /\ retval = Returned("Workflow incomplete after " \o ToString(max_steps)
                              \o " steps. Last result: " \o observations[max_steps]))

\* C8 witness: two steps, a tool result and then the error text of a failed step.
C8_Witness ==
    /\ pc = "exhausted"
    /\ max_steps = 2
    /\ observations = <<"looks fine", error_msg("'tool'")>>

\* a response of neither required shape, as the claim lists them
Malformed(d) ==
    \/ d.type # "object"
    \/ "done" \notin d.keys /\ "tool" \notin d.keys
    \/ "done" \notin d.keys /\ "args" \notin d.keys
    \/ "done" \in d.keys /\ d.done = "true" /\ "summary" \notin d.keys

\* C9: a malformed response makes an error step: the step is not terminal, no
\* tool is invoked and its observation is an error text.
C9_MalformedIsErrorStep ==
    (pc \in {"think", "call", "done", "exhausted"} /\ decisions # <<>>
     /\ Malformed(decision))
    => (/\ pc \notin {"done", "call"}
        /\ \E e \in {"Expecting value: line 1 column 1 (char 0)",
                     "'list' object has no attribute 'get'", "'tool'"} :
              result = error_msg(e))

\* the names of a list of descriptors
Names(descs) == [i \in 1..Len(descs) |-> descs[i].name]
\* no two discovered tools share a qualified name
NoCollision == \A i, j \in 1..Len(discovered) : discovered[i] = discovered[j] => i = j

\* C10: when no two discovered tools collide, get_tool_descriptions lists the
\* discovered tools one each, in the order of discovery, and an operation
\* other than a connect leaves the list as it was.
C10_OneDescriptorPerTool ==
    [][/\ NoCollision' => Names(get_tool_descriptions)' = discovered'
       /\ lastOp'.op # "connect_to_server"
            => get_tool_descriptions' = get_tool_descriptions]_vars

\* C10 witness: two sessions, three tools, three descriptors.
C10_Witness ==
    /\ NoCollision
    /\ Len(discovered) = 3
    /\ Cardinality(DOMAIN sessions) = 2
    /\ Len(get_tool_descriptions) = 3
    /\ lastOp.op = "cleanup"

\* an Invoke decision {"tool": q, "args": a}
Invoke(d) == d.type = "object" /\ d.keys = {"tool", "args"}
\* the session that discovered q last and the name the tool has there
Discoverer(q) ==
    discoverers[CHOOSE i \in 1..Len(discovered) :
                    /\ discovered[i] = q
                    /\ \A j \in (i + 1)..Len(discovered) : discovered[j] # q]

\* C11: for an Invoke decision {"tool": q, "args": A} with q in the registry
\* exactly one call is made: on the session that discovered q (the latest one
\* when the server was connected again), with the tool's own unqualified name
\* and with the mapping A as it is; no further call is made while the call is
\* awaited or after it failed.
C11_InvokesOwningSessionOnce ==
    [][/\ (pc = "act" /\ Invoke(decision) /\ decision.tool \in Keys(available_tools))
            => /\ pc' = "call"
               /\ calls' = Append(calls, [session |-> Discoverer(decision.tool).session,
                                          name |-> Discoverer(decision.tool).name,
                                          arguments |-> decision.args])
       /\ pc = "call" => (calls' = calls /\ pc' \in {"think", "exhausted"})
       /\ Len(calls') <= thinkCalls']_vars

\* C11 witness: the server was connected twice; the second step's call went to
\* the second session after the first step's call had failed.
C11_Witness ==
    /\ pc = "call"
    /\ step = 2
    /\ observations = <<error_msg("tool failed")>>
    /\ calls = <<[session |-> 2, name |-> "u", arguments |-> A1],
                 [session |-> 2, name |-> "u", arguments |-> A1]>>

\* a session's answer with zero content items, and the sentinel
ZeroContent == [raised |-> FALSE, content |-> <<>>, error |-> ""]
Sentinel == "Tool executed successfully (no output)"

\* C12: when the owning session answers a call with zero content items,
\* call_tool returns the sentinel text and does not fail; the step is a
\* successful one (a history entry is appended) that is not terminal and whose
\* result is the sentinel.
C12_EmptyContentIsSentinel ==
    [][(pc = "call" /\ answer' = ZeroContent)
        => /\ lastOp' = Op("call_tool returned", inflight[Agent].name, Sentinel)
           /\ result' = Sentinel
           /\ observations' = Append(observations, Sentinel)
           /\ Len(conversation_history') = Len(conversation_history) + 1
           /\ conversation_history'[Len(conversation_history')].result = Sentinel
           /\ pc' \in {"think", "exhausted"}
           /\ pc' = "exhausted" =>
                 retval' = Returned("Workflow incomplete after " \o ToString(max_steps)
                                    \o " steps. Last result: " \o Sentinel)]_vars

\* C12 witness: the first step's call was answered with no content and the
\* run went on to its second step.
C12_Witness ==
    /\ pc = "think"
    /\ step = 2
    /\ answer = ZeroContent
    /\ result = Sentinel
    /\ conversation_history = <<HistoryEntry("s.u", A1, Sentinel)>>

\* the request text of step k >= 2, as the claim builds it
RequestOf(k) ==
    "Previous result: " \o observations[k - 1]
        \o "\nContinue with the original task " \o user_input

\* C13: the request given to think at step 1 is the goal, and at every step
\* k >= 2 it is built from the observation of step k-1, verbatim, and the
\* original goal: no earlier observation and no earlier rewritten request is
\* in it. The request rewritten after the last step is built the same way.
C13_RequestFromLastObservation ==
    /\ pc \in {"think", "act", "call"} =>
          /\ Len(observations) = step - 1
          /\ current_request = IF step = 1 THEN user_input ELSE RequestOf(step)
    /\ pc \in {"act", "call"} => prompt.request = current_request
    /\ (pc = "exhausted" /\ max_steps >= 1) => current_request = RequestOf(max_steps + 1)

\* C13 witness: the first response was text that is no JSON; the prompt of
\* step 2 carries the error text of step 1 and the goal.
C13_Witness ==
    /\ pc = "act"
    /\ step = 2
    /\ decisions[1].type = "text"
    /\ prompt.request =
          "Previous result: Error executing tool Expecting value: line 1 column 1 (char 0)"
            \o "\nContinue with the original task Review the code in sample.py"

\* a is a prefix of b
IsPrefix(a, b) == Len(a) <= Len(b) /\ SubSeq(b, 1, Len(a)) = a
\* a run is between its start and its return
Running == pc \in {"think", "act", "call"}

\* C14: within a run the history only grows at its end (what it held before
\* stays, in place and in order); the step that starts a run, a second run on
\* the same agent included, leaves it empty, and no other step between runs
\* touches it; so the history a prompt carries holds entries of its own run
\* only.
C14_HistoryAppendOnlyPerRun ==
    [][/\ Running => IsPrefix(conversation_history, conversation_history')
       /\ (~Running /\ agentVars' # agentVars) => conversation_history' = <<>>
       /\ (~Running /\ agentVars' = agentVars)
             => conversation_history' = conversation_history
       /\ Len(conversation_history') <= Len(observations')
       /\ \A i \in 1..Len(conversation_history') :
             \E j \in 1..Len(observations') :
                conversation_history'[i].result = observations'[j]
       /\ pc' \in {"act", "call"} =>
             /\ prompt'.history.entries = conversation_history
             /\ prompt'.history.placeholder =
                   IF conversation_history = <<>> THEN "No history yet" ELSE ""]_vars

\* C14 witness: a second run began on an agent whose first run had left an
\* entry; its first prompt carried no history, and it has appended its own.
C14_Witness ==
    /\ stale
    /\ pc = "think"
    /\ step = 2
    /\ prompt.history = [entries |-> <<>>, placeholder |-> "No history yet"]
    /\ conversation_history = <<HistoryEntry("s.u", A2, "looks fine")>>

\* the completion call of a step did not return: it raised out of run
CompletionFailed == retval = Raised("completion service failed")

\* C15: a run with max_steps >= 1 whose external calls all return reaches Done
\* or Exhausted. Steps are sequential: a think starts with every earlier act
\* finished and no call awaited; each step makes one completion call and at
\* most one tool call, none repeated; neither total exceeds max_steps.
C15_RunTerminatesWithinBudget ==
    /\ [](Running =>
            /\ step \in 1..max_steps
            /\ thinkCalls = IF pc = "think" THEN step - 1 ELSE step
            /\ Len(observations) = step - 1
            /\ (Agent \in DOMAIN inflight) <=> (pc = "call"))
    /\ [](thinkCalls <= max_steps /\ Len(calls) <= thinkCalls)
    /\ [][/\ thinkCalls' \in {0, thinkCalls, thinkCalls + 1}
          /\ Len(calls') \in {0, Len(calls), Len(calls) + 1}
          /\ pc = "call" => calls' = calls]_vars
    /\ Running ~> (pc \in {"done", "exhausted"} \/ CompletionFailed)

\* C15 witness: a run used its whole budget, two completion calls and two
\* tool calls, the second of them failed, and returned.
C15_Witness ==
    /\ pc = "exhausted"
    /\ max_steps = MaxSteps
    /\ thinkCalls = MaxSteps
    /\ Len(calls) = MaxSteps
    /\ result = error_msg("tool failed")

\* C16: connect_to_server and cleanup are serialized against call_tool: while
\* a call_tool is suspended at its session call no connect is in progress and
\* no cleanup has released the sessions (a cleanup is the latest operation
\* only if it came after the suspended call began).
C16_ConnectCleanupExcludeCalls ==
    DOMAIN inflight # {} => (conn.at = "none" /\ lastOp.op # "cleanup")

\* C17: every entry of available_tools agrees with the sessions map: its key
\* is server_name.tool.name and its session is the one stored at
\* sessions[server_name], also after a server name was connected again.
C17_EntriesAgreeWithSessions ==
    \A i \in 1..Len(available_tools) :
        LET e == available_tools[i]
        IN  /\ e.key = e.server_name \o "." \o e.tool.name
            /\ e.server_name \in DOMAIN sessions
            /\ e.session = sessions[e.server_name]

\* the qualified names discovered by the step
NewlyDiscovered == {discovered'[i] : i \in (Len(discovered) + 1)..Len(discovered')}

\* C18: a connect_to_server that fails, at the path check, the transport, the
\* handshake or the discovery, leaves available_tools as it was before the
\* call: the catalog changes only in the step that ends a connect whose
\* initialize and list_tools both succeeded, and that one step inserts all
\* the tools of the session.
C18_FailedConnectKeepsCatalog ==
    [][/\ (lastOp'.op = "connect_to_server" /\ lastOp'.outcome # "connected")
            => available_tools' = available_tools
       /\ available_tools' # available_tools
            => /\ conn.at = "list_tools"
               /\ sessions[conn.server_name] = conn.session
               /\ lastOp' = Op("connect_to_server", conn.server_name, "connected")
               /\ conn'.at = "none"
       /\ NewlyDiscovered \subseteq Keys(available_tools')]_vars

\* C18 witness: a second connect failed at its discovery, after its handshake
\* had succeeded, and the catalog holds the two tools of the first connect.
C18_Witness ==
    /\ lastOp = Op("connect_to_server", "s.t", "list_tools failed")
    /\ DOMAIN sessions = {"s", "s.t"}
    /\ discovered = <<"s.u", "s.t.u">>
    /\ Keys(available_tools) = {"s.u", "s.t.u"}
    /\ \A i \in 1..Len(available_tools) : available_tools[i].session = 1

\* a JSON object whose "done" value is truthy
DoneTruthy(d) ==
    d.type = "object" /\ "done" \in d.keys /\ d.done \notin {"false", "null", "0", ""}

\* C19: in act a JSON object with a truthy "done" ends the run: the step is
\* terminal, no tool is called and the history stays as it is, also when the
\* object carries "tool" and "args"; an object whose "done" is absent or
\* falsy never ends the run.
C19_DoneBeforeInvoke ==
    [][pc = "act" =>
        /\ DoneTruthy(decision)
              => /\ pc' = "done"
                 /\ retval'.kind = "returned"
                 /\ calls' = calls
                 /\ inflight' = inflight
                 /\ conversation_history' = conversation_history
        /\ (decision.type = "object" /\ ~DoneTruthy(decision)) => pc' # "done"]_vars

\* C19 witness: the response carried done, summary, tool and args, with the
\* tool registered; the run is done and nothing was called or recorded.
C19_Witness ==
    /\ pc = "done"
    /\ decision.keys = {"done", "summary", "tool", "args"}
    /\ decision.tool \in Keys(available_tools)
    /\ calls = <<>>
    /\ conversation_history = <<>>

====
